---- MODULE Spec2Model ----
(***************************************************************************)
(* Model of the seapopym / seapodym-lmtl pipeline:                         *)
(*   - NoTransportModel (model/no_transport_model.py): the public phase    *)
(*     methods and the kernel loop of pre_production;                      *)
(*   - the average_temperature and global_mask kernels                     *)
(*     (function/generator/*.py);                                          *)
(*   - the cohort axis builder (configuration_to_dataset.py);              *)
(*   - the attrs parameter classes and their validators                    *)
(*     (config/parameters.py).                                             *)
(* The orchestrator is the specification Spec; the pure functions are      *)
(* exercised by specifications of their own that draw the arguments from   *)
(* bounded sets (variables args / result).                                 *)
(***************************************************************************)
EXTENDS Integers, Sequences, FiniteSets, TLC

VARIABLES
    hasState,   \* self.state is not None
    state,      \* self.state: field name -> value (Absent where the field is missing)
    chunked,    \* self.state is the result of Dataset.chunk
    client,     \* self.client is not None
    pc,         \* 0: no method is running; i in 1..9: pre_production is about to call kernel i
    callNo,     \* number of phase calls that have assigned to self.state so far
    lastOp,     \* the public method called last (or still running)
    outcome,    \* how it ended: "none" (nothing called yet), "running", "ok", "error"
    executed,   \* kernels called by the current / last pre_production call, in order
    written,    \* keys assigned by the current / last pre_production call, in order
    scatters,   \* client.scatter calls of the current / last pre_production call
    computed,   \* compute_production / compute_biomass was invoked by the last call
    args,       \* arguments of the pure function under test (other specifications)
    result      \* its result (other specifications)

vars == << hasState, state, chunked, client, pc, callNo, lastOp, outcome,
           executed, written, scatters, computed, args, result >>

pipelineVars == << hasState, state, chunked, client, pc, callNo, lastOp, outcome,
                   executed, written, scatters, computed >>

-----------------------------------------------------------------------------
(* Bounds *)

\* phase calls that assign to self.state, per behaviour
MaxCalls == 3

-----------------------------------------------------------------------------
(* Labels and values *)

\* ConfigurationLabels: the fields generate_configuration provides
ConfigurationFields == {"temperature", "primary_production", "day_layer", "night_layer"}

\* the mapping with mask_by_fgroup and day_length entered before global_mask
KernelOrderMaskFirst ==
    << "mask_by_fgroup", "day_length", "avg_temperature_by_fgroup", "global_mask",
       "primary_production_by_fgroup", "min_temperature", "mask_temperature",
       "cell_area", "mortality_field" >>

\* the keys of the kernel mapping of pre_production, in insertion order
KernelOrder ==
    << "global_mask", "mask_by_fgroup", "day_length", "avg_temperature_by_fgroup",
       "primary_production_by_fgroup", "min_temperature", "mask_temperature",
       "cell_area", "mortality_field" >>

PreproductionFields == {KernelOrder[i] : i \in 1..Len(KernelOrder)}

Fields == ConfigurationFields \cup PreproductionFields \cup {"production", "biomass"}

\* a missing field
Absent == [dims |-> << >>, call |-> 0]

IsPresent(st, name) == st[name] # Absent

EmptyState == [f \in Fields |-> Absent]

\* dimensions of the configuration fields
ConfigurationDims(name) ==
    CASE name = "temperature" -> << "time", "Y", "X", "Z" >>
      [] name = "primary_production" -> << "time", "Y", "X" >>
      [] OTHER -> << "functional_group" >>

\* self.configuration.model_parameters
model_parameters ==
    [f \in Fields |->
        IF f \in ConfigurationFields THEN [dims |-> ConfigurationDims(f), call |-> 0]
        ELSE Absent]

-----------------------------------------------------------------------------
(* The kernels of pre_production *)

\* the state fields _average_temperature_by_fgroup_helper reads
average_temperature_reads ==
    {"temperature", "day_length", "mask_by_fgroup", "day_layer", "night_layer"}

\* the state fields _global_mask_from_nan reads
global_mask_reads == {"temperature"}

\* mask_by_fgroup projects global_mask through the day / night layers
mask_by_fgroup_reads == {"global_mask", "day_layer", "night_layer"}

KernelReads(name) ==
    CASE name = "global_mask" -> global_mask_reads
      [] name = "avg_temperature_by_fgroup" -> average_temperature_reads
      [] name = "mask_by_fgroup" -> mask_by_fgroup_reads
      [] OTHER -> {}

\* "dims" of the template each kernel builds
average_temperature_dims == << "functional_group", "time", "Y", "X" >>

global_mask_dims == << "Y", "X", "Z" >>

TemplateDims(name) ==
    CASE name = "global_mask" -> global_mask_dims
      [] name = "avg_temperature_by_fgroup" -> average_temperature_dims
      [] name \in {"mask_by_fgroup", "mask_temperature"} -> << "functional_group", "Y", "X" >>
      [] name = "cell_area" -> << "Y", "X" >>
      [] name \in {"day_length", "min_temperature"} -> << "time", "Y", "X" >>
      [] OTHER -> << "functional_group", "time", "Y", "X" >>

\* apply_map_block(function, state, template): function(state) is called, which
\* raises when a field it reads is missing (or when the data make it raise:
\* bodyOk = FALSE); the result carries the template's dims.  The state handed
\* in comes back as it went in: the kernel bodies only read it.
apply_map_block(name, st, bodyOk, tag) ==
    IF bodyOk /\ \A f \in KernelReads(name) : IsPresent(st, f)
    THEN [raised |-> FALSE, st |-> st, value |-> [dims |-> TemplateDims(name), call |-> tag]]
    ELSE [raised |-> TRUE, st |-> st, value |-> Absent]

\* generator.global_mask(state, chunk)
global_mask(st, bodyOk, tag) == apply_map_block("global_mask", st, bodyOk, tag)

\* a helper that converts the units of the temperature in place, in the state
average_temperature_inplace(st, bodyOk, tag) ==
    LET r == apply_map_block("avg_temperature_by_fgroup", st, bodyOk, tag)
    IN  [r EXCEPT !.st = [st EXCEPT !["temperature"] = [@ EXCEPT !.call = tag]]]

\* generator.average_temperature(state, chunk)
average_temperature(st, bodyOk, tag) ==
    apply_map_block("avg_temperature_by_fgroup", st, bodyOk, tag)

\* kernel[name](self.state, chunk=chunk)
func(name, st, bodyOk, tag) ==
    CASE name = "global_mask" -> global_mask(st, bodyOk, tag)
      [] name = "avg_temperature_by_fgroup" -> average_temperature(st, bodyOk, tag)
      [] OTHER -> apply_map_block(name, st, bodyOk, tag)

\* an assignment that keeps the old value when the dims of the new one differ
StateSetSameDimsOnly(st, name, value) ==
    IF IsPresent(st, name) /\ st[name].dims # value.dims THEN st
    ELSE [st EXCEPT ![name] = value]

\* self.state[name] = value
StateSet(st, name, value) == [st EXCEPT ![name] = value]

\* compute_production(data=self.state, ...): the state with the production added
compute_production(st, tag) ==
    [st EXCEPT !["production"] =
        [dims |-> << "functional_group", "time", "Y", "X", "cohort" >>, call |-> tag]]

\* xr.merge([self.state, xr.map_blocks(compute_biomass, self.state)])
compute_biomass(st, tag) ==
    [st EXCEPT !["biomass"] = [dims |-> << "functional_group", "time", "Y", "X" >>, call |-> tag]]

-----------------------------------------------------------------------------
(* NoTransportModel *)

\* the state after NoTransportModel.__init__
ModelInit ==
    /\ hasState = FALSE
    /\ state = EmptyState
    /\ chunked = FALSE
    /\ client = FALSE
    /\ pc = 0
    /\ callNo = 0
    /\ lastOp = "__init__"
    /\ outcome = "none"
    /\ executed = << >>
    /\ written = << >>
    /\ scatters = 0
    /\ computed = FALSE

Idle == pc = 0

\* a method that ends without touching the state
Ends(op, how) ==
    /\ lastOp' = op
    /\ outcome' = how
    /\ pc' = 0

\* NoTransportModel.initialize: the client is created when the configuration asks
\* for one; a client that is there stays
Initialize ==
    /\ Idle
    /\ \E c \in BOOLEAN : client' = (client \/ c)
    /\ Ends("initialize", "ok")
    /\ computed' = FALSE
    /\ UNCHANGED << hasState, state, chunked, callNo, executed, written, scatters, args, result >>

\* NoTransportModel.generate_configuration
GenerateConfiguration ==
    /\ Idle
    /\ hasState' = TRUE
    /\ state' = model_parameters
    /\ chunked' = FALSE
    /\ Ends("generate_configuration", "ok")
    /\ computed' = FALSE
    /\ UNCHANGED << client, callNo, executed, written, scatters, args, result >>

\* NoTransportModel.save_configuration, NoTransportModel.save_output: empty bodies
SaveConfiguration ==
    /\ Idle
    /\ Ends("save_configuration", "ok")
    /\ computed' = FALSE
    /\ UNCHANGED << hasState, state, chunked, client, callNo, executed, written, scatters,
                    args, result >>

SaveOutput ==
    /\ Idle
    /\ Ends("save_output", "ok")
    /\ computed' = FALSE
    /\ UNCHANGED << hasState, state, chunked, client, callNo, executed, written, scatters,
                    args, result >>

\* NoTransportModel.close
Close ==
    /\ Idle
    /\ client' = FALSE
    /\ Ends("close", "ok")
    /\ computed' = FALSE
    /\ UNCHANGED << hasState, state, chunked, callNo, executed, written, scatters, args, result >>

\* the position of pre_production between the chunk and the kernel loop:
\* "if self.client is not None"
ScatterLine == 0 - 1

\* NoTransportModel.pre_production up to the scatter: self.state.chunk(chunk)
\* (AttributeError while self.state is None)
PreProductionBegin ==
    /\ Idle
    /\ callNo < MaxCalls
    /\ lastOp' = "pre_production"
    /\ executed' = << >>
    /\ written' = << >>
    /\ computed' = FALSE
    /\ IF hasState
       THEN /\ chunked' = TRUE
            /\ scatters' = 0
            /\ callNo' = callNo + 1
            /\ pc' = ScatterLine
            /\ outcome' = "running"
       ELSE /\ outcome' = "error"
            /\ scatters' = 0
            /\ pc' = 0
            /\ UNCHANGED << chunked, callNo >>
    /\ UNCHANGED << hasState, state, client, args, result >>

\* the scatter done whether or not there is a client
PreProductionScatterUnconditional ==
    /\ pc = ScatterLine
    /\ scatters' = scatters + 1
    /\ pc' = 1
    /\ outcome' = "running"
    /\ UNCHANGED << hasState, state, chunked, client, callNo, lastOp, executed, written,
                    computed, args, result >>

\* "if self.client is not None: self.client.scatter(self.state)": with a client the
\* state is scattered; then the loop
PreProductionScatter ==
    /\ pc = ScatterLine
    /\ scatters' = IF client THEN scatters + 1 ELSE scatters
    /\ pc' = 1
    /\ outcome' = "running"
    /\ UNCHANGED << hasState, state, chunked, client, callNo, lastOp, executed, written,
                    computed, args, result >>

\* the statement with the kernel's exception swallowed: the next kernel runs
LoopTurnContinue(name, r) ==
    /\ executed' = Append(executed, name)
    /\ state' = IF r.raised THEN r.st ELSE StateSet(r.st, name, r.value)
    /\ written' = IF r.raised THEN written ELSE Append(written, name)
    /\ pc' = IF pc = Len(KernelOrder) THEN 0 ELSE pc + 1
    /\ outcome' = IF pc < Len(KernelOrder) THEN "running"
                  ELSE IF r.raised THEN "error" ELSE "ok"
    /\ UNCHANGED << hasState, chunked, client, callNo, lastOp, scatters, computed, args, result >>

\* "self.state[name] = func(self.state, chunk=chunk)" with r what func did: an
\* exception leaves the loop and the method, a value is assigned and the loop goes on
LoopTurn(name, r) ==
    /\ executed' = Append(executed, name)
    /\ IF r.raised
       THEN /\ state' = r.st
            /\ written' = written
            /\ pc' = 0
            /\ outcome' = "error"
       ELSE /\ state' = StateSet(r.st, name, r.value)
            /\ written' = Append(written, name)
            /\ pc' = IF pc = Len(KernelOrder) THEN 0 ELSE pc + 1
            /\ outcome' = IF pc = Len(KernelOrder) THEN "ok" ELSE "running"
    /\ UNCHANGED << hasState, chunked, client, callNo, lastOp, scatters, computed, args, result >>

\* one turn of "for name, func in kernel.items()" with the kernels of the mapping
KernelStep(bodyOk) ==
    /\ pc \in 1..Len(KernelOrder)
    /\ LoopTurn(KernelOrder[pc], func(KernelOrder[pc], state, bodyOk, callNo))

\* production with a converter that does not touch self.state
ProductionNoStateRead(convOk, bodyOk) ==
    /\ Idle
    /\ callNo < MaxCalls
    /\ lastOp' = "production"
    /\ pc' = 0
    /\ IF convOk
       THEN /\ computed' = TRUE
            /\ callNo' = callNo + 1
            /\ IF bodyOk /\ hasState
               THEN /\ state' = compute_production(state, callNo + 1)
                    /\ outcome' = "ok"
               ELSE /\ state' = state
                    /\ outcome' = "error"
       ELSE /\ computed' = FALSE
            /\ outcome' = "error"
            /\ UNCHANGED << state, callNo >>
    /\ UNCHANGED << hasState, chunked, client, executed, written, scatters, args, result >>

\* NoTransportModel.production: _preproduction_converter() reads self.state.cf["T"]
\* (AttributeError while self.state is None) and may raise TypeError; only then is
\* compute_production called and its result assigned
Production(convOk, bodyOk) ==
    /\ Idle
    /\ callNo < MaxCalls
    /\ lastOp' = "production"
    /\ pc' = 0
    /\ IF hasState /\ convOk
       THEN /\ computed' = TRUE
            /\ callNo' = callNo + 1
            /\ IF bodyOk
               THEN /\ state' = compute_production(state, callNo + 1)
                    /\ outcome' = "ok"
               ELSE /\ state' = state
                    /\ outcome' = "error"
       ELSE /\ computed' = FALSE
            /\ outcome' = "error"
            /\ UNCHANGED << state, callNo >>
    /\ UNCHANGED << hasState, chunked, client, executed, written, scatters, args, result >>

\* NoTransportModel.post_production
PostProduction(bodyOk) ==
    /\ Idle
    /\ callNo < MaxCalls
    /\ lastOp' = "post_production"
    /\ pc' = 0
    /\ IF hasState
       THEN /\ computed' = TRUE
            /\ callNo' = callNo + 1
            /\ IF bodyOk
               THEN /\ state' = compute_biomass(state, callNo + 1)
                    /\ outcome' = "ok"
               ELSE /\ state' = state
                    /\ outcome' = "error"
       ELSE /\ computed' = FALSE
            /\ outcome' = "error"
            /\ UNCHANGED << state, callNo >>
    /\ UNCHANGED << hasState, chunked, client, executed, written, scatters, args, result >>

NoArgs == [fn |-> "none"]

Init ==
    /\ ModelInit
    /\ args = NoArgs
    /\ result = NoArgs

Next ==
    \/ Initialize
    \/ GenerateConfiguration
    \/ SaveConfiguration
    \/ PreProductionBegin
    \/ PreProductionScatter
    \/ \E bodyOk \in BOOLEAN : KernelStep(bodyOk)
    \/ \E convOk, bodyOk \in BOOLEAN : Production(convOk, bodyOk)
    \/ \E bodyOk \in BOOLEAN : PostProduction(bodyOk)
    \/ SaveOutput
    \/ Close

Spec == Init /\ [][Next]_vars

-----------------------------------------------------------------------------
(* The loop of pre_production over kernels of any result *)
(* The loop assigns what func returns; here the dims of that value are an    *)
(* input of each turn, so that a field can meet a value of other dims.       *)

\* the dims a kernel's value may have: those of its template, or those less the first
ResultDims(name) == {TemplateDims(name), Tail(TemplateDims(name))}

\* what a kernel returning a value of dimensions dims does
funcReturning(name, st, bodyOk, tag, dims) ==
    LET r == func(name, st, bodyOk, tag)
    IN  IF r.raised THEN r ELSE [r EXCEPT !.value = [dims |-> dims, call |-> tag]]

\* one turn of the loop
KernelStepAny(bodyOk, dims) ==
    /\ pc \in 1..Len(KernelOrder)
    /\ dims \in ResultDims(KernelOrder[pc])
    /\ LoopTurn(KernelOrder[pc], funcReturning(KernelOrder[pc], state, bodyOk, callNo, dims))

\* the model after __init__ and generate_configuration
InitLoop ==
    /\ hasState = TRUE
    /\ state = model_parameters
    /\ chunked = FALSE
    /\ client = FALSE
    /\ pc = 0
    /\ callNo = 0
    /\ lastOp = "generate_configuration"
    /\ outcome = "ok"
    /\ executed = << >>
    /\ written = << >>
    /\ scatters = 0
    /\ computed = FALSE
    /\ args = NoArgs
    /\ result = NoArgs

AllDims == UNION {ResultDims(KernelOrder[i]) : i \in 1..Len(KernelOrder)}

NextLoop ==
    \/ PreProductionBegin
    \/ PreProductionScatter
    \/ \E bodyOk \in BOOLEAN, dims \in AllDims : KernelStepAny(bodyOk, dims)

SpecLoop == InitLoop /\ [][NextLoop]_vars

-----------------------------------------------------------------------------
(* _average_temperature_by_fgroup_helper *)
(* Numbers are floats: a missing value (NaN) or a rational num / den.  The   *)
(* grid is time x one (Y, X) point; functional group g of the coordinate     *)
(* 0..n-1 is index g + 1.                                                     *)

\* functional groups of a drawn state: 1..MaxGroups
MaxGroups == 2

\* time steps of a drawn state: 1..MaxTimes
MaxTimes == 1

NaN == [nan |-> TRUE, num |-> 0, den |-> 1]

Num(n, d) == [nan |-> FALSE, num |-> n, den |-> d]

\* float arithmetic: a missing operand gives a missing result
Mul(a, b) == IF a.nan \/ b.nan THEN NaN ELSE Num(a.num * b.num, a.den * b.den)

Add(a, b) == IF a.nan \/ b.nan THEN NaN ELSE Num(a.num * b.den + b.num * a.den, a.den * b.den)

Sub(a, b) == IF a.nan \/ b.nan THEN NaN ELSE Num(a.num * b.den - b.num * a.den, a.den * b.den)

\* numeric equality of two floats (np.array_equal: NaN equals nothing)
NumEq(a, b) == ~a.nan /\ ~b.nan /\ a.num * b.den = b.num * a.den

\* DataArray.where(cond): the value where cond, missing elsewhere
Where(v, cond) == IF cond THEN v ELSE NaN

\* temperature.cf.sel(Z=label): the slice of the layer whose coordinate value is label
SelZ(temperature, layer, label) ==
    LET k == CHOOSE i \in 1..Len(layer) : layer[i] = label
    IN  [t \in DOMAIN temperature |-> [p \in DOMAIN temperature[t] |-> temperature[t][p][k]]]

\* the loop body without the final where(mask_by_fgroup)
mean_temperature_unmasked(st, g) ==
    LET day_temperature == SelZ(st.temperature, st.layer, st.day_layer[g])
        night_temperature == SelZ(st.temperature, st.layer, st.night_layer[g])
    IN  [t \in DOMAIN st.day_length |-> [p \in DOMAIN st.day_length[t] |->
            Add(Mul(st.day_length[t][p], day_temperature[t][p]),
                Mul(Sub(Num(1, 1), st.day_length[t][p]), night_temperature[t][p]))]]

\* the loop body with the night temperature selected at day_layer as well
mean_temperature_day_layer_twice(st, g) ==
    LET day_temperature == SelZ(st.temperature, st.layer, st.day_layer[g])
        night_temperature == SelZ(st.temperature, st.layer, st.day_layer[g])
    IN  [t \in DOMAIN st.day_length |-> [p \in DOMAIN st.day_length[t] |->
            Where(Add(Mul(st.day_length[t][p], day_temperature[t][p]),
                      Mul(Sub(Num(1, 1), st.day_length[t][p]), night_temperature[t][p])),
                  st.mask_by_fgroup[g][p])]]

\* the body of the loop of the helper, for functional group g
mean_temperature(st, g) ==
    LET day_temperature == SelZ(st.temperature, st.layer, st.day_layer[g])
        night_temperature == SelZ(st.temperature, st.layer, st.night_layer[g])
    IN  [t \in DOMAIN st.day_length |-> [p \in DOMAIN st.day_length[t] |->
            Where(Add(Mul(st.day_length[t][p], day_temperature[t][p]),
                      Mul(Sub(Num(1, 1), st.day_length[t][p]), night_temperature[t][p])),
                  st.mask_by_fgroup[g][p])]]

\* the helper with the mask of the first functional group applied to every group
average_temperature_helper_first_group_mask(st) ==
    [g \in 1..Len(st.day_layer) |->
        [t \in DOMAIN st.day_length |-> [p \in DOMAIN st.day_length[t] |->
            Where(mean_temperature_unmasked(st, g)[t][p], st.mask_by_fgroup[1][p])]]]

\* xr.concat(average_temperature, dim=functional_group): one slice per group, in the
\* order of the coordinate
_average_temperature_by_fgroup_helper(st) ==
    [g \in 1..Len(st.day_layer) |-> mean_temperature(st, g)]

\* the grid points (Y, X) of a drawn state
Points == {1}

\* coordinates.new_layer(): the layer labels
new_layer == << 1, 2 >>

TemperatureValues == {NaN, Num(0, 1), Num(1, 1)}

DayLengthValues == {Num(0, 1), Num(1, 2), Num(1, 1)}

\* the states the helper is called with
HelperStates ==
    UNION { [temperature : [1..nt -> [Points -> [1..Len(new_layer) -> TemperatureValues]]],
             layer : {new_layer},
             day_length : [1..nt -> [Points -> DayLengthValues]],
             mask_by_fgroup : [1..ng -> [Points -> BOOLEAN]],
             day_layer : [1..ng -> {new_layer[i] : i \in 1..Len(new_layer)}],
             night_layer : [1..ng -> {new_layer[i] : i \in 1..Len(new_layer)}]]
            : ng \in 1..MaxGroups, nt \in 1..MaxTimes }

\* the fixtures of test_mask_by_fgroup: layer i (counted from 0) holds i
FixtureTemperature == [t \in {1} |-> [p \in Points |-> [k \in 1..Len(new_layer) |-> Num(k - 1, 1)]]]

\* a temperature whose value at the layer labelled k is k
LabelTemperature == [t \in {1} |-> [p \in Points |-> [k \in 1..Len(new_layer) |-> Num(new_layer[k], 1)]]]

Fixture(temperature) ==
    [temperature |-> temperature,
     layer |-> new_layer,
     day_length |-> [t \in {1} |-> [p \in Points |-> Num(1, 2)]],
     mask_by_fgroup |-> [g \in 1..4 |-> [p \in Points |-> TRUE]],
     day_layer |-> << 1, 1, 2, 2 >>,
     night_layer |-> << 1, 2, 2, 1 >>]

InitHelper ==
    /\ ModelInit
    /\ \E st \in HelperStates \cup {Fixture(FixtureTemperature), Fixture(LabelTemperature)} :
          args = [fn |-> "average_temperature", state |-> st]
    /\ result = NoArgs

\* a call of the helper on the drawn state
CallHelper ==
    /\ args.fn = "average_temperature"
    /\ result = NoArgs
    /\ result' = [fn |-> "average_temperature",
                  value |-> _average_temperature_by_fgroup_helper(args.state),
                  state |-> args.state]
    /\ UNCHANGED << args, pipelineVars >>

SpecHelper == InitHelper /\ [][CallHelper]_vars

\* the helper has returned
HelperDone == args.fn = "average_temperature" /\ result # NoArgs

\* day_length * day + (1 - day_length) * night, from the values at the two layers
WeightedSum(dl, day, night) ==
    IF day.nan \/ night.nan THEN NaN
    ELSE Num(dl.num * day.num * night.den + (dl.den - dl.num) * night.num * day.den,
             dl.den * day.den * night.den)

\* the value of a field at the layer labelled label
AtLayer(st, t, p, label) ==
    st.temperature[t][p][CHOOSE k \in 1..Len(st.layer) : st.layer[k] = label]

SameFloat(a, b) == (a.nan /\ b.nan) \/ NumEq(a, b)

\* C3: the result has one slice per functional group, in the order of the
\* coordinate; at every (time, point) the slice of group g is the weighted sum
\* day_length * T[day_layer[g]] + (1 - day_length) * T[night_layer[g]] where
\* mask_by_fgroup[g] holds and a missing value where it does not.
C3_AverageTemperature ==
    HelperDone =>
        LET st == args.state
            out == result.value
        IN  /\ DOMAIN out = 1..Len(st.day_layer)
            /\ \A g \in DOMAIN out : \A t \in DOMAIN st.day_length : \A p \in Points :
                  IF st.mask_by_fgroup[g][p]
                  THEN SameFloat(out[g][t][p],
                                 WeightedSum(st.day_length[t][p],
                                             AtLayer(st, t, p, st.day_layer[g]),
                                             AtLayer(st, t, p, st.night_layer[g])))
                  ELSE out[g][t][p].nan

\* two groups with different layers, the first masked out and the second not, a day
\* length of 1/2 and two defined temperatures: the result is missing for the first
\* and 1/2 for the second
C3_Witness ==
    /\ HelperDone
    /\ Len(args.state.day_layer) = 2
    /\ args.state.day_layer = << 1, 1 >> /\ args.state.night_layer = << 1, 2 >>
    /\ args.state.mask_by_fgroup[1][1] = FALSE /\ args.state.mask_by_fgroup[2][1] = TRUE
    /\ args.state.day_length[1][1] = Num(1, 2)
    /\ args.state.temperature[1][1] = << Num(0, 1), Num(1, 1) >>
    /\ result.value[1][1][1].nan
    /\ NumEq(result.value[2][1][1], Num(1, 2))

\* the expected values of the reference test: [0, 0.5, 1.0, 0.5]
Expected == << Num(0, 1), Num(1, 2), Num(1, 1), Num(1, 2) >>

ResultIsExpected ==
    /\ DOMAIN result.value = 1..4
    /\ \A g \in 1..4 : NumEq(result.value[g][1][1], Expected[g])

\* C4 (as claimed): with the four groups (1,1), (1,2), (2,2), (2,1), a temperature
\* whose value at layer k is k, a day length of 0.5 and a mask true everywhere, the
\* result is [0, 0.5, 1.0, 0.5].
C4_LayerKHoldsK ==
    (HelperDone /\ args.state = Fixture(LabelTemperature)) => ResultIsExpected

\* C4 (amended): the same with the temperature of the reference test, whose value
\* at layer k (labels 1, 2, ...) is k - 1.
C4_LayerKHoldsKMinus1 ==
    (HelperDone /\ args.state = Fixture(FixtureTemperature)) => ResultIsExpected

\* the helper has returned on the fixtures of the reference test
C4_Witness ==
    HelperDone /\ args.state = Fixture(FixtureTemperature) /\ Len(result.value) = 4

-----------------------------------------------------------------------------
(* _as_dataset__build_cohort_dataset___cohort_by_fgroup *)

\* cohorts of a drawn functional group: 0..MaxCohorts
MaxCohorts == 3

\* entries of a drawn timesteps_number: 0..MaxTimestepsNumber
MaxTimestepsNumber == 5

\* np.cumsum(timesteps_number)
RECURSIVE cumsum(_)
cumsum(seq) ==
    IF seq = << >> THEN << >>
    ELSE LET head == cumsum(SubSeq(seq, 1, Len(seq) - 1))
         IN  Append(head, (IF head = << >> THEN 0 ELSE head[Len(head)]) + seq[Len(seq)])

\* the cohort axis with min_timestep = max_timestep - timesteps_number
cohort_by_fgroup_min_off_by_one(fgroup, timesteps_number) ==
    LET max_timestep == cumsum(timesteps_number)
        min_timestep == [i \in 1..Len(timesteps_number) |-> max_timestep[i] - timesteps_number[i]]
    IN  [fgroup |-> fgroup,
         cohort |-> [i \in 1..Len(timesteps_number) |-> i - 1],
         timesteps_number |-> timesteps_number,
         min_timestep |-> min_timestep,
         max_timestep |-> max_timestep,
         mean_timestep |-> [i \in 1..Len(timesteps_number) |->
                               Num(max_timestep[i] + min_timestep[i], 2)]]

\* the cohort axis with each range counted from 1: max_timestep without the cumsum
cohort_by_fgroup_without_cumsum(fgroup, timesteps_number) ==
    LET max_timestep == timesteps_number
        min_timestep == [i \in 1..Len(timesteps_number) |->
                            max_timestep[i] - (timesteps_number[i] - 1)]
    IN  [fgroup |-> fgroup,
         cohort |-> [i \in 1..Len(timesteps_number) |-> i - 1],
         timesteps_number |-> timesteps_number,
         min_timestep |-> min_timestep,
         max_timestep |-> max_timestep,
         mean_timestep |-> [i \in 1..Len(timesteps_number) |->
                               Num(max_timestep[i] + min_timestep[i], 2)]]

\* the data variables and coordinates of the dataset the function returns
_as_dataset__build_cohort_dataset___cohort_by_fgroup(fgroup, timesteps_number) ==
    LET cohort_index == [i \in 1..Len(timesteps_number) |-> i - 1]
        max_timestep == cumsum(timesteps_number)
        min_timestep == [i \in 1..Len(timesteps_number) |->
                            max_timestep[i] - (timesteps_number[i] - 1)]
        mean_timestep == [i \in 1..Len(timesteps_number) |->
                             Num(max_timestep[i] + min_timestep[i], 2)]
    IN  [fgroup |-> fgroup,
         cohort |-> cohort_index,
         timesteps_number |-> timesteps_number,
         min_timestep |-> min_timestep,
         max_timestep |-> max_timestep,
         mean_timestep |-> mean_timestep]

TimestepsNumbers ==
    UNION { [1..n -> 0..MaxTimestepsNumber] : n \in 0..MaxCohorts }

InitCohort ==
    /\ ModelInit
    /\ \E fgroup \in {0, 1}, timesteps_number \in TimestepsNumbers :
          args = [fn |-> "cohort_by_fgroup", fgroup |-> fgroup,
                  timesteps_number |-> timesteps_number]
    /\ result = NoArgs

\* a call of the function on the drawn list
CallCohort ==
    /\ args.fn = "cohort_by_fgroup"
    /\ result = NoArgs
    /\ result' = [fn |-> "cohort_by_fgroup",
                  value |-> _as_dataset__build_cohort_dataset___cohort_by_fgroup(
                                args.fgroup, args.timesteps_number)]
    /\ UNCHANGED << args, pipelineVars >>

SpecCohort == InitCohort /\ [][CallCohort]_vars

CohortDone == args.fn = "cohort_by_fgroup" /\ result # NoArgs

\* timesteps_number[1] + ... + timesteps_number[i]
RECURSIVE SumFirst(_, _)
SumFirst(seq, i) == IF i = 0 THEN 0 ELSE SumFirst(seq, i - 1) + seq[i]

\* C8: for every cohort i, max_timestep[i] is the sum of the first i entries of
\* timesteps_number, min_timestep[i] = max_timestep[i] - timesteps_number[i] + 1 and
\* mean_timestep[i] = (min_timestep[i] + max_timestep[i]) / 2; [3, 2, 5] gives
\* max [3, 5, 10], min [1, 4, 6] and mean [2, 4.5, 8].
C8_CohortAxis ==
    CohortDone =>
        LET tn == args.timesteps_number
            v == result.value
        IN  /\ Len(v.max_timestep) = Len(tn)
            /\ Len(v.min_timestep) = Len(tn)
            /\ Len(v.mean_timestep) = Len(tn)
            /\ \A i \in 1..Len(tn) :
                  /\ v.max_timestep[i] = SumFirst(tn, i)
                  /\ v.min_timestep[i] = v.max_timestep[i] - tn[i] + 1
                  /\ ~v.mean_timestep[i].nan
                  /\ 2 * v.mean_timestep[i].num =
                        (v.min_timestep[i] + v.max_timestep[i]) * v.mean_timestep[i].den
            /\ tn = << 3, 2, 5 >> =>
                  /\ v.max_timestep = << 3, 5, 10 >>
                  /\ v.min_timestep = << 1, 4, 6 >>
                  /\ NumEq(v.mean_timestep[1], Num(2, 1))
                  /\ NumEq(v.mean_timestep[2], Num(9, 2))
                  /\ NumEq(v.mean_timestep[3], Num(8, 1))

\* the axis of timesteps_number = [3, 2, 5] has been built
C8_Witness ==
    /\ CohortDone
    /\ args.timesteps_number = << 3, 2, 5 >>
    /\ result.value.max_timestep[3] = 10
    /\ result.value.cohort = << 0, 1, 2 >>

\* a non-empty list of strictly positive integers
StrictlyPositiveList(tn) == Len(tn) >= 1 /\ \A i \in 1..Len(tn) : tn[i] >= 1

\* C16: for a non-empty list of strictly positive integers the cohort ranges are
\* contiguous, disjoint and cover 1..sum: the first min_timestep is 1, each next one
\* is the previous max_timestep + 1, a range holds timesteps_number[i] timesteps,
\* the last max_timestep is the sum of the list, mean_timestep lies within its
\* range, and every timestep of 1..sum is in exactly one range.
C16_CohortRangesPartition ==
    (CohortDone /\ StrictlyPositiveList(args.timesteps_number)) =>
        LET tn == args.timesteps_number
            v == result.value
            n == Len(tn)
            total == SumFirst(tn, n)
        IN  /\ Len(v.min_timestep) = n /\ Len(v.max_timestep) = n /\ Len(v.mean_timestep) = n
            /\ v.min_timestep[1] = 1
            /\ \A i \in 1..(n - 1) : v.min_timestep[i + 1] = v.max_timestep[i] + 1
            /\ \A i \in 1..n : v.max_timestep[i] - v.min_timestep[i] + 1 = tn[i]
            /\ v.max_timestep[n] = total
            /\ \A i \in 1..n :
                  /\ ~v.mean_timestep[i].nan /\ v.mean_timestep[i].den > 0
                  /\ v.min_timestep[i] * v.mean_timestep[i].den <= v.mean_timestep[i].num
                  /\ v.mean_timestep[i].num <= v.max_timestep[i] * v.mean_timestep[i].den
            /\ \A t \in 1..total :
                  Cardinality({i \in 1..n : v.min_timestep[i] <= t /\ t <= v.max_timestep[i]}) = 1
            /\ \A i \in 1..n : 1 <= v.min_timestep[i] /\ v.max_timestep[i] <= total

\* the list [2, 1, 3] has given the ranges 1..2, 3..3 and 4..6
C16_Witness ==
    /\ CohortDone
    /\ args.timesteps_number = << 2, 1, 3 >>
    /\ result.value.min_timestep = << 1, 3, 4 >>
    /\ result.value.max_timestep = << 2, 3, 6 >>

-----------------------------------------------------------------------------
(* FunctionalGroups and its validator no_more_than_global_coef *)

\* functional groups of a drawn list: 0..MaxUnits
MaxUnits == 3

\* the energy coefficients a drawn unit may carry: 0.0, 0.1, ..., 1.0
EnergyCoefficients == {Num(k, 10) : k \in 0..10}

\* sum([fg.energy_coefficient for fg in value])
RECURSIVE total_energy(_)
total_energy(value) ==
    IF value = << >> THEN Num(0, 1)
    ELSE Add(total_energy(SubSeq(value, 1, Len(value) - 1)), value[Len(value)].energy_coefficient)

\* a > b on floats
Gt(a, b) == ~a.nan /\ ~b.nan /\ a.num * b.den > b.num * a.den

\* the validator with "total_energy >= 1"
FunctionalGroupsRejectingOne(functional_groups) ==
    IF ~ Gt(Num(1, 1), total_energy(functional_groups))
    THEN [raised |-> "ValueError", object |-> << >>, built |-> FALSE]
    ELSE [raised |-> "none", object |-> functional_groups, built |-> TRUE]

\* FunctionalGroups(functional_groups=...): the attribute is set, then validated
FunctionalGroups(functional_groups) ==
    IF Gt(total_energy(functional_groups), Num(1, 1))
    THEN [raised |-> "ValueError", object |-> << >>, built |-> FALSE]
    ELSE [raised |-> "none", object |-> functional_groups, built |-> TRUE]

\* a FunctionalGroupUnit that passed its own validators
FunctionalGroupUnits ==
    [name : {"fg"}, day_layer : {1}, night_layer : {1}, energy_coefficient : EnergyCoefficients]

UnitWith(k) == [name |-> "fg", day_layer |-> 1, night_layer |-> 1, energy_coefficient |-> Num(k, 10)]

InitFunctionalGroups ==
    /\ ModelInit
    /\ \E n \in 0..MaxUnits : \E value \in [1..n -> FunctionalGroupUnits] :
          args = [fn |-> "FunctionalGroups", functional_groups |-> value]
    /\ result = NoArgs

\* a construction of FunctionalGroups from the drawn list
CallFunctionalGroups ==
    /\ args.fn = "FunctionalGroups"
    /\ result = NoArgs
    /\ result' = FunctionalGroups(args.functional_groups)
    /\ UNCHANGED << args, pipelineVars >>

SpecFunctionalGroups == InitFunctionalGroups /\ [][CallFunctionalGroups]_vars

FunctionalGroupsDone == args.fn = "FunctionalGroups" /\ result # NoArgs

\* the coefficients of a list, in tenths
RECURSIVE Tenths(_, _)
Tenths(value, i) ==
    IF i = 0 THEN 0
    ELSE Tenths(value, i - 1) +
         (10 * value[i].energy_coefficient.num) \div value[i].energy_coefficient.den

\* C9: the construction raises, and yields no object, exactly when the coefficients
\* sum to more than 1; a sum of exactly 1 is accepted: [0.5, 0.3, 0.3] is rejected,
\* [0.5, 0.3, 0.2] is accepted.
C9_EnergySum ==
    FunctionalGroupsDone =>
        LET value == args.functional_groups
        IN  /\ (result.raised # "none") <=> (Tenths(value, Len(value)) > 10)
            /\ (result.raised # "none") <=> ~result.built
            /\ result.built => result.object = value
            /\ value = << UnitWith(5), UnitWith(3), UnitWith(3) >> => ~result.built
            /\ value = << UnitWith(5), UnitWith(3), UnitWith(2) >> => result.built

\* [0.5, 0.3, 0.2], whose sum is exactly 1, has been accepted
C9_Witness ==
    /\ FunctionalGroupsDone
    /\ args.functional_groups = << UnitWith(5), UnitWith(3), UnitWith(2) >>
    /\ result.built

\* [0.5, 0.3, 0.3] has been rejected
C9_WitnessRejected ==
    /\ FunctionalGroupsDone
    /\ args.functional_groups = << UnitWith(5), UnitWith(3), UnitWith(3) >>
    /\ result.raised = "ValueError"

-----------------------------------------------------------------------------
(* PathParametersUnit, PathParameters, Parameters *)
(* The file system is an argument: each path is missing, a file xarray       *)
(* cannot open, or a dataset with a set of variables.                        *)

Paths == {"temperature.nc", "npp.nc"}

VariableNames == {"temperature", "npp"}

Files ==
    {[exists |-> FALSE, dataset |-> FALSE, variables |-> {}],
     [exists |-> TRUE, dataset |-> FALSE, variables |-> {}]}
    \cup {[exists |-> TRUE, dataset |-> TRUE, variables |-> v] : v \in SUBSET VariableNames}

\* a unit without the name validator
PathParametersUnitNameUnchecked(fs, forcing_path, name) ==
    LET file == fs[forcing_path]
    IN  IF ~file.exists
        THEN [raised |-> "ValueError", opened |-> 0, built |-> FALSE,
              forcing_path |-> forcing_path, name |-> name]
        ELSE [raised |-> "none", opened |-> 0, built |-> TRUE,
              forcing_path |-> forcing_path, name |-> name]

\* PathParametersUnit(forcing_path=..., name=...): attrs sets every attribute, then
\* runs the validators in the order of the fields: _path_exists, then
\* name_isin_forcing, which opens the dataset once for the test and once more for
\* the message of its error
PathParametersUnit(fs, forcing_path, name) ==
    LET file == fs[forcing_path]
    IN  IF ~file.exists
        THEN [raised |-> "ValueError", opened |-> 0, built |-> FALSE,
              forcing_path |-> forcing_path, name |-> name]
        ELSE IF ~file.dataset
        THEN [raised |-> "OSError", opened |-> 1, built |-> FALSE,
              forcing_path |-> forcing_path, name |-> name]
        ELSE IF name \notin file.variables
        THEN [raised |-> "ValueError", opened |-> 2, built |-> FALSE,
              forcing_path |-> forcing_path, name |-> name]
        ELSE [raised |-> "none", opened |-> 1, built |-> TRUE,
              forcing_path |-> forcing_path, name |-> name]

\* the fields of PathParameters, in the order a caller builds their values
PathFields == << "temperature", "primary_production" >>

InitParameters ==
    /\ ModelInit
    /\ \E fs \in [Paths -> Files], forcing_path \in [1..Len(PathFields) -> Paths],
          name \in [1..Len(PathFields) -> VariableNames] :
          args = [fn |-> "Parameters", fs |-> fs, forcing_path |-> forcing_path, name |-> name]
    /\ result = [fn |-> "Parameters", units |-> << >>, raised |-> "none", opened |-> 0,
                 path_parameters |-> FALSE, parameters |-> FALSE]

ParametersRunning == args.fn = "Parameters" /\ result.raised = "none"

\* the caller builds the next PathParametersUnit; its error ends the configuration
BuildPathParametersUnit ==
    /\ ParametersRunning
    /\ Len(result.units) < Len(PathFields)
    /\ LET i == Len(result.units) + 1
           unit == PathParametersUnit(args.fs, args.forcing_path[i], args.name[i])
       IN  result' = [result EXCEPT !.units = Append(@, unit),
                                    !.raised = unit.raised,
                                    !.opened = unit.opened]
    /\ UNCHANGED << args, pipelineVars >>

\* PathParameters(temperature=..., primary_production=...): no validator
BuildPathParameters ==
    /\ ParametersRunning
    /\ Len(result.units) = Len(PathFields)
    /\ ~result.path_parameters
    /\ result' = [result EXCEPT !.path_parameters = TRUE]
    /\ UNCHANGED << args, pipelineVars >>

\* Parameters(function_parameters=..., path_parameters=..., functional_groups_parameters=...)
BuildParameters ==
    /\ ParametersRunning
    /\ result.path_parameters
    /\ ~result.parameters
    /\ result' = [result EXCEPT !.parameters = TRUE]
    /\ UNCHANGED << args, pipelineVars >>

NextParameters == BuildPathParametersUnit \/ BuildPathParameters \/ BuildParameters

SpecParameters == InitParameters /\ [][NextParameters]_vars

\* the forcing reference (forcing_path, name) is valid in the file system
ValidReference(fs, forcing_path, name) ==
    fs[forcing_path].exists /\ fs[forcing_path].dataset /\ name \in fs[forcing_path].variables

\* C10: a PathParametersUnit is built only if its path exists and its name is a
\* variable of the dataset there; a missing path or an absent name raises at
\* construction, a missing path without the dataset being opened; so the
\* PathParameters and the Parameters built from the units hold valid references only.
C10_ForcingReference ==
    args.fn = "Parameters" =>
        /\ \A i \in 1..Len(result.units) :
              LET unit == result.units[i]
                  file == args.fs[unit.forcing_path]
              IN  /\ unit.forcing_path = args.forcing_path[i] /\ unit.name = args.name[i]
                  /\ unit.built <=> ValidReference(args.fs, unit.forcing_path, unit.name)
                  /\ unit.built <=> (unit.raised = "none")
                  /\ ~file.exists => (unit.raised = "ValueError" /\ unit.opened = 0)
                  /\ (file.dataset /\ unit.name \notin file.variables) => unit.raised = "ValueError"
                  /\ i < Len(result.units) => unit.built
                  /\ ~unit.built => (result.raised = unit.raised /\ ~result.path_parameters)
        /\ (result.path_parameters \/ result.parameters) =>
              /\ Len(result.units) = Len(PathFields)
              /\ \A i \in 1..Len(PathFields) :
                    ValidReference(args.fs, args.forcing_path[i], args.name[i])
        /\ result.parameters => result.path_parameters

\* the second unit names a path that is missing: its construction has raised without
\* opening anything, after the first unit was built, and no Parameters follows
C10_Witness ==
    /\ args.fn = "Parameters"
    /\ Len(result.units) = 2
    /\ result.units[1].built
    /\ ~args.fs[args.forcing_path[2]].exists
    /\ result.units[2].raised = "ValueError" /\ result.units[2].opened = 0
    /\ ~result.parameters

\* a Parameters has been built from two valid references
C10_WitnessBuilt ==
    /\ args.fn = "Parameters"
    /\ result.parameters
    /\ \A i \in 1..2 : result.units[i].built

-----------------------------------------------------------------------------
(* FunctionParameters and FunctionalGroupUnit: the range validators *)
(* An argument is a number (a float, NaN included) or a text float() cannot   *)
(* parse.                                                                      *)

Number(v) == [kind |-> "number", v |-> v]

Text == [kind |-> "text", v |-> NaN]

\* the arguments drawn: -1, 0, 0.5, 1, 2, NaN and a text
RawValues ==
    {Number(Num(0 - 1, 1)), Number(Num(0, 1)), Number(Num(1, 2)), Number(Num(1, 1)),
     Number(Num(2, 1)), Number(NaN), Text}

\* a >= b, a <= b on floats: False as soon as one is NaN
Ge(a, b) == ~a.nan /\ ~b.nan /\ a.num * b.den >= b.num * a.den

Le(a, b) == ~a.nan /\ ~b.nan /\ a.num * b.den <= b.num * a.den

\* converter=float: a number as a float, ValueError on a text
float(raw) == [raised |-> raw.kind = "text", v |-> raw.v]

\* validators.gt(0) / validators.ge(0) / validators.le(1): ValueError unless the
\* comparison holds; comparing a text with a number is a TypeError
gt(raw, bound) == raw.kind = "number" /\ Gt(raw.v, Num(bound, 1))

ge(raw, bound) == raw.kind = "number" /\ Ge(raw.v, Num(bound, 1))

le(raw, bound) == raw.kind = "number" /\ Le(raw.v, Num(bound, 1))

FunctionParameterNames ==
    << "inv_lambda_max", "inv_lambda_rate", "temperature_recruitment_rate",
       "temperature_recruitment_max", "energy_transfert" >>

Rejected == [raised |-> TRUE, built |-> FALSE, object |-> << >>]

\* FunctionParameters with validators.ge(0) on the four curve constants
FunctionParametersAcceptingZero(kw) ==
    IF \E i \in 1..Len(kw) : float(kw[i]).raised THEN Rejected
    ELSE IF /\ \A i \in 1..4 : ge(kw[i], 0)
            /\ ge(kw[5], 0) /\ le(kw[5], 1)
         THEN [raised |-> FALSE, built |-> TRUE, object |-> [i \in 1..Len(kw) |-> float(kw[i]).v]]
         ELSE Rejected

\* FunctionParameters(**kw), kw in the order of FunctionParameterNames: every
\* attribute goes through float, then the validators run
FunctionParameters(kw) ==
    IF \E i \in 1..Len(kw) : float(kw[i]).raised THEN Rejected
    ELSE IF /\ gt(kw[1], 0) /\ gt(kw[2], 0) /\ gt(kw[3], 0) /\ gt(kw[4], 0)
            /\ ge(kw[5], 0) /\ le(kw[5], 1)
         THEN [raised |-> FALSE, built |-> TRUE, object |-> [i \in 1..Len(kw) |-> float(kw[i]).v]]
         ELSE Rejected

\* FunctionalGroupUnit with validators.ge(0) on the layers
FunctionalGroupUnitAcceptingLayerZero(name, day_layer, night_layer, energy_coefficient) ==
    IF /\ ge(day_layer, 0) /\ ge(night_layer, 0)
       /\ ge(energy_coefficient, 0) /\ le(energy_coefficient, 1)
    THEN [raised |-> FALSE, built |-> TRUE,
          object |-> [name |-> name, day_layer |-> day_layer.v, night_layer |-> night_layer.v,
                      energy_coefficient |-> energy_coefficient.v]]
    ELSE Rejected

\* FunctionalGroupUnit(name=..., day_layer=..., night_layer=..., energy_coefficient=...):
\* no converter, the validators only
FunctionalGroupUnit(name, day_layer, night_layer, energy_coefficient) ==
    IF /\ gt(day_layer, 0) /\ gt(night_layer, 0)
       /\ ge(energy_coefficient, 0) /\ le(energy_coefficient, 1)
    THEN [raised |-> FALSE, built |-> TRUE,
          object |-> [name |-> name, day_layer |-> day_layer.v, night_layer |-> night_layer.v,
                      energy_coefficient |-> energy_coefficient.v]]
    ELSE Rejected

InitRanges ==
    /\ ModelInit
    /\ \/ \E kw \in [1..Len(FunctionParameterNames) -> RawValues] :
             args = [fn |-> "FunctionParameters", kw |-> kw]
       \/ \E day_layer, night_layer, energy_coefficient \in RawValues :
             args = [fn |-> "FunctionalGroupUnit", name |-> "fg", day_layer |-> day_layer,
                     night_layer |-> night_layer, energy_coefficient |-> energy_coefficient]
    /\ result = NoArgs

\* a construction of FunctionParameters from the drawn arguments
CallFunctionParameters ==
    /\ args.fn = "FunctionParameters"
    /\ result = NoArgs
    /\ result' = FunctionParameters(args.kw)
    /\ UNCHANGED << args, pipelineVars >>

\* a construction of FunctionalGroupUnit from the drawn arguments
CallFunctionalGroupUnit ==
    /\ args.fn = "FunctionalGroupUnit"
    /\ result = NoArgs
    /\ result' = FunctionalGroupUnit(args.name, args.day_layer, args.night_layer,
                                     args.energy_coefficient)
    /\ UNCHANGED << args, pipelineVars >>

NextRanges == CallFunctionParameters \/ CallFunctionalGroupUnit

SpecRanges == InitRanges /\ [][NextRanges]_vars

\* a float is a number strictly above 0 / within [0, 1]
StrictlyPositive(v) == ~v.nan /\ v.num > 0 /\ v.den > 0

WithinUnit(v) == ~v.nan /\ v.den > 0 /\ 0 <= v.num /\ v.num <= v.den

\* an argument is a number in the range
RawStrictlyPositive(raw) == raw.kind = "number" /\ StrictlyPositive(raw.v)

RawWithinUnit(raw) == raw.kind = "number" /\ WithinUnit(raw.v)

\* C11: a FunctionParameters is built exactly when its four curve constants are
\* strictly positive and energy_transfert is within [0, 1], a FunctionalGroupUnit
\* exactly when both layers are strictly positive and energy_coefficient is within
\* [0, 1]; the object built holds values in those ranges; anything else (0 for a
\* strictly positive one, NaN, a text) ends in an error and no object.
C11_RangeConstraints ==
    /\ (args.fn = "FunctionParameters" /\ result # NoArgs) =>
          /\ result.built <=> (/\ \A i \in 1..4 : RawStrictlyPositive(args.kw[i])
                               /\ RawWithinUnit(args.kw[5]))
          /\ result.built <=> ~result.raised
          /\ result.built => (/\ \A i \in 1..4 : StrictlyPositive(result.object[i])
                              /\ WithinUnit(result.object[5]))
    /\ (args.fn = "FunctionalGroupUnit" /\ result # NoArgs) =>
          /\ result.built <=> (/\ RawStrictlyPositive(args.day_layer)
                               /\ RawStrictlyPositive(args.night_layer)
                               /\ RawWithinUnit(args.energy_coefficient))
          /\ result.built <=> ~result.raised
          /\ result.built => (/\ StrictlyPositive(result.object.day_layer)
                              /\ StrictlyPositive(result.object.night_layer)
                              /\ WithinUnit(result.object.energy_coefficient))

\* inv_lambda_max = 0 with every other argument in its range: the construction of
\* FunctionParameters has failed
C11_Witness ==
    /\ args.fn = "FunctionParameters" /\ result # NoArgs
    /\ args.kw[1] = Number(Num(0, 1))
    /\ \A i \in 2..4 : args.kw[i] = Number(Num(2, 1))
    /\ args.kw[5] = Number(Num(1, 1))
    /\ result.raised /\ ~result.built

\* a FunctionalGroupUnit with layers 1 and 2 and energy_coefficient 0 has been built
C11_WitnessBuilt ==
    /\ args.fn = "FunctionalGroupUnit" /\ result # NoArgs
    /\ args.day_layer = Number(Num(1, 1)) /\ args.night_layer = Number(Num(2, 1))
    /\ args.energy_coefficient = Number(Num(0, 1))
    /\ result.built

-----------------------------------------------------------------------------
(* The templates of global_mask and average_temperature *)
(* An optional argument is None or a value.                                   *)

None == [given |-> FALSE]

Some(v) == [given |-> TRUE, v |-> v]

\* the largest chunk size drawn
MaxChunk == 2

ChunkDims == {"functional_group", "Y", "X"}

\* chunk: None, or a mapping from dimensions to chunk sizes
Chunks == {None} \cup {Some(c) : c \in UNION {[ds -> 1..MaxChunk] : ds \in SUBSET ChunkDims}}

ForcingNames == {"model_a", "model_b"}

\* lazy: None, or the name of the model
Lazies == {None} \cup {Some(n) : n \in ForcingNames}

\* "Template if lazy is None else TemplateLazy"
class_type(lazy) == IF lazy = None THEN "Template" ELSE "TemplateLazy"

\* the keyword arguments of the template: the four entries of the dict, and
\* model_name added "if lazy is not None"
template_attributs(name, dims, attributs, chunk, lazy) ==
    [k \in {"name", "dims", "attributs", "chunk"} \cup (IF lazy # None THEN {"model_name"} ELSE {}) |->
        CASE k = "name" -> name
          [] k = "dims" -> dims
          [] k = "attributs" -> attributs
          [] k = "chunk" -> chunk
          [] k = "model_name" -> lazy.v]

\* the template of average_temperature with the chunk left out in lazy mode
average_temperature_template_lazy_unchunked(chunk, lazy) ==
    [class_type |-> class_type(lazy),
     kw |-> template_attributs("avg_temperature_by_fgroup", average_temperature_dims,
                               "average_temperature_by_fgroup_desc",
                               IF lazy # None THEN None ELSE chunk, lazy)]

\* the template average_temperature(state, chunk, lazy) builds: class_type(**template_attributs)
average_temperature_template(chunk, lazy) ==
    [class_type |-> class_type(lazy),
     kw |-> template_attributs("avg_temperature_by_fgroup", average_temperature_dims,
                               "average_temperature_by_fgroup_desc", chunk, lazy)]

\* the template global_mask(state, chunk, lazy) builds
global_mask_template(chunk, lazy) ==
    [class_type |-> class_type(lazy),
     kw |-> template_attributs("global_mask", global_mask_dims, "global_mask_desc", chunk, lazy)]

TemplateKernels == {"global_mask", "avg_temperature_by_fgroup"}

kernel_template(kernel, chunk, lazy) ==
    IF kernel = "global_mask" THEN global_mask_template(chunk, lazy)
    ELSE average_temperature_template(chunk, lazy)

InitTemplate ==
    /\ ModelInit
    /\ \E kernel \in TemplateKernels, chunk \in Chunks, lazy \in Lazies :
          args = [fn |-> "template", kernel |-> kernel, chunk |-> chunk, lazy |-> lazy]
    /\ result = NoArgs

\* the kernel builds its template from chunk and lazy
BuildTemplate ==
    /\ args.fn = "template"
    /\ result = NoArgs
    /\ result' = kernel_template(args.kernel, args.chunk, args.lazy)
    /\ UNCHANGED << args, pipelineVars >>

SpecTemplate == InitTemplate /\ [][BuildTemplate]_vars

TemplateDone == args.fn = "template" /\ result # NoArgs

\* the template the same kernel builds in eager mode from the same chunk
EagerTemplate == kernel_template(args.kernel, args.chunk, None)

\* C14: the template a kernel builds in lazy mode has the name, the ordered dims,
\* the attributes and the chunk of the one it builds in eager mode; the type is
\* TemplateLazy exactly when lazy is given and Template exactly when it is None;
\* model_name is there only in lazy mode and is the lazy argument.
C14_TemplateSameInterface ==
    TemplateDone =>
       /\ \A k \in {"name", "dims", "attributs", "chunk"} :
             /\ k \in DOMAIN result.kw
             /\ k \in DOMAIN EagerTemplate.kw
             /\ result.kw[k] = EagerTemplate.kw[k]
       /\ result.kw["name"] = args.kernel
       /\ result.kw["chunk"] = args.chunk
       /\ result.kw["dims"] = IF args.kernel = "global_mask" THEN << "Y", "X", "Z" >>
                              ELSE << "functional_group", "time", "Y", "X" >>
       /\ result.class_type = "TemplateLazy" <=> args.lazy # None
       /\ result.class_type = "Template" <=> args.lazy = None
       /\ EagerTemplate.class_type = "Template"
       /\ DOMAIN EagerTemplate.kw = {"name", "dims", "attributs", "chunk"}
       /\ "model_name" \in DOMAIN result.kw <=> args.lazy # None
       /\ DOMAIN result.kw \ DOMAIN EagerTemplate.kw \subseteq {"model_name"}
       /\ args.lazy # None => result.kw["model_name"] = args.lazy.v
       /\ args.lazy = None => result = EagerTemplate

\* average_temperature has built a TemplateLazy for model_a with a chunk over
\* functional_group
C14_Witness ==
    /\ TemplateDone
    /\ args.kernel = "avg_temperature_by_fgroup"
    /\ args.lazy = Some("model_a")
    /\ args.chunk.given /\ "functional_group" \in DOMAIN args.chunk.v
    /\ result.class_type = "TemplateLazy"
    /\ result.kw["model_name"] = "model_a"

-----------------------------------------------------------------------------
(* Eager and lazy calls of global_mask and average_temperature *)
(* The grid is one time step and the points of one column (Y); the state is  *)
(* chunked over functional_group and Y.  A lazy call returns the blocks the   *)
(* function is still to run on; compute() runs it on each and assembles them. *)

LazyPoints == {1, 2}

\* a temperature that is missing or tells its layer; the day length tells the point
LazyTemperatures ==
    [{1} -> [LazyPoints -> {<< a, b >> : a \in {NaN, Num(1, 1)}, b \in {NaN, Num(2, 1)}}]]

\* the mask: true, but for at most one (group, point)
LazyMasks(ng) ==
    {[g \in 1..ng |-> [p \in LazyPoints |-> << g, p >> # hole]] :
        hole \in {<< 0, 0 >>} \cup ((1..ng) \X LazyPoints)}

LazyStates ==
    UNION { [temperature : LazyTemperatures,
             layer : {new_layer},
             day_length : {[t \in {1} |-> [p \in LazyPoints |-> Num(1, p + 1)]]},
             mask_by_fgroup : LazyMasks(ng),
             day_layer : [1..ng -> {new_layer[i] : i \in 1..Len(new_layer)}],
             night_layer : [1..ng -> {new_layer[i] : i \in 1..Len(new_layer)}]]
            : ng \in 1..MaxGroups }

\* chunk: None, or a size for functional_group and for Y
LazyChunks ==
    {None} \cup {Some([d \in ChunkDims |-> IF d = "functional_group" THEN a
                                            ELSE IF d = "Y" THEN b ELSE 1]) :
                    a \in 1..MaxChunk, b \in 1..MaxChunk}

\* landmask_from_nan(temperature): true where the temperature of the first time step
\* is defined, over (Y, X, Z)
landmask_from_nan(temperature) ==
    [p \in DOMAIN temperature[1] |->
        [k \in DOMAIN temperature[1][p] |-> ~temperature[1][p][k].nan]]

\* _global_mask_from_nan(state)
_global_mask_from_nan(st) == landmask_from_nan(st.temperature)

\* the function a kernel hands to apply_map_block
KernelFunction(kernel, st) ==
    IF kernel = "global_mask" THEN _global_mask_from_nan(st)
    ELSE _average_temperature_by_fgroup_helper(st)

\* the size of the chunks of a dimension of n values: n when it is not chunked
ChunkSize(chunk, dim, n) ==
    IF chunk = None \/ dim \notin DOMAIN chunk.v THEN n
    ELSE IF chunk.v[dim] > n THEN n ELSE chunk.v[dim]

\* the first and last index of block b of a dimension of n values in chunks of c
BlockLow(b, c) == (b - 1) * c + 1

BlockHigh(b, c, n) == IF b * c > n THEN n ELSE b * c

BlockCount(c, n) == (n + c - 1) \div c

\* the block holding index i
BlockOf(i, c) == ((i - 1) \div c) + 1

\* the part of the state in the groups lo..hi and the points ps: a variable is cut
\* along the dimensions it has
Block(st, lo, hi, ps) ==
    [temperature |-> [t \in DOMAIN st.temperature |-> [p \in ps |-> st.temperature[t][p]]],
     layer |-> st.layer,
     day_length |-> [t \in DOMAIN st.day_length |-> [p \in ps |-> st.day_length[t][p]]],
     mask_by_fgroup |-> [g \in 1..(hi - lo + 1) |-> [p \in ps |-> st.mask_by_fgroup[lo + g - 1][p]]],
     day_layer |-> SubSeq(st.day_layer, lo, hi),
     night_layer |-> SubSeq(st.night_layer, lo, hi)]

\* apply_map_block(function, state, template): with a Template the function runs on
\* the state now; with a TemplateLazy nothing runs and the value returned holds the
\* blocks of the state, one per chunk of functional_group and of Y
apply_map_block_value(kernel, st, template) ==
    IF template.class_type = "Template"
    THEN [deferred |-> FALSE, materialized |-> FALSE, name |-> template.kw["name"],
          value |-> KernelFunction(kernel, st)]
    ELSE LET ng == Len(st.day_layer)
             np == Cardinality(LazyPoints)
             cg == ChunkSize(template.kw["chunk"], "functional_group", ng)
             cp == ChunkSize(template.kw["chunk"], "Y", np)
         IN  [deferred |-> TRUE, materialized |-> FALSE, name |-> template.kw["name"],
              kernel |-> kernel, ng |-> ng, cg |-> cg, cp |-> cp,
              blocks |-> [bg \in 1..BlockCount(cg, ng) |-> [bp \in 1..BlockCount(cp, np) |->
                            Block(st, BlockLow(bg, cg), BlockHigh(bg, cg, ng),
                                  BlockLow(bp, cp)..BlockHigh(bp, cp, np))]]]

\* the materialization of a lazy value: the function runs on every block and each
\* element of the result comes from the block that holds it (a result without the
\* functional_group dimension from the last block along it)
compute(lazy_value) ==
    LET on(bg, bp) == KernelFunction(lazy_value.kernel, lazy_value.blocks[bg][bp])
        cg == lazy_value.cg
        cp == lazy_value.cp
    IN  IF lazy_value.kernel = "global_mask"
        THEN [p \in LazyPoints |->
                 on(BlockCount(cg, lazy_value.ng), BlockOf(p, cp))[p]]
        ELSE [g \in 1..lazy_value.ng |-> [t \in {1} |-> [p \in LazyPoints |->
                 on(BlockOf(g, cg), BlockOf(p, cp))[g - BlockLow(BlockOf(g, cg), cg) + 1][t][p]]]]

InitLazy ==
    /\ ModelInit
    /\ \E kernel \in TemplateKernels, st \in LazyStates, chunk \in LazyChunks,
          lazy \in {None, Some("model_a")} :
          args = [fn |-> "kernel", kernel |-> kernel, state |-> st, chunk |-> chunk,
                  lazy |-> lazy]
    /\ result = NoArgs

\* global_mask(state, chunk, lazy) or average_temperature(state, chunk, lazy)
CallKernel ==
    /\ args.fn = "kernel"
    /\ result = NoArgs
    /\ result' = apply_map_block_value(args.kernel, args.state,
                                       kernel_template(args.kernel, args.chunk, args.lazy))
    /\ UNCHANGED << args, pipelineVars >>

\* the caller materializes the lazy value
Compute ==
    /\ args.fn = "kernel"
    /\ result # NoArgs
    /\ result.deferred
    /\ result' = [deferred |-> FALSE, materialized |-> TRUE, name |-> result.name,
                  value |-> compute(result)]
    /\ UNCHANGED << args, pipelineVars >>

NextLazy == CallKernel \/ Compute

SpecLazy == InitLazy /\ [][NextLazy]_vars

\* the value an eager call of the same kernel returns for the same state and chunk
EagerValue ==
    apply_map_block_value(args.kernel, args.state,
                          kernel_template(args.kernel, args.chunk, None)).value

-----------------------------------------------------------------------------
(* production and its _preproduction_converter *)
(* The time axis holds n distinct dates, here the days 2, 4, ..., 2n.  An     *)
(* entry of timestamps is an int (a position) or a str (a date, given here by *)
(* the day it denotes).                                                       *)

\* the largest number of values of the time axis
MaxAxis == 3

\* the longest list of timestamps
MaxTimestamps == 3

\* self.state.cf["T"]
TimeAxis(n) == [i \in 1..n |-> 2 * i]

IntEntry(i) == [type |-> "int", v |-> i]

StrEntry(day) == [type |-> "str", v |-> day]

\* positions from -1 to one past the end; days before the axis, half way between
\* its first two values, and on its second value
TimestampEntries ==
    {IntEntry(i) : i \in (0 - 1)..MaxAxis} \cup {StrEntry(1), StrEntry(3), StrEntry(4)}

All == [kind |-> "all"]

List(items) == [kind |-> "list", items |-> items]

\* output.pre_production.timestamps: None, "all" or a list
Timestamps ==
    {None, All} \cup
    {List(items) : items \in UNION {[1..k -> TimestampEntries] : k \in 0..MaxTimestamps}}

Range(seq) == {seq[i] : i \in 1..Len(seq)}

\* data.isel(time=positions): position p of -n..n-1 is p or n + p, any other one is
\* an IndexError
isel(data, positions) ==
    IF \E i \in 1..Len(positions) : positions[i] < 0 - Len(data) \/ positions[i] >= Len(data)
    THEN [raised |-> "IndexError", value |-> << >>]
    ELSE [raised |-> "none",
          value |-> [i \in 1..Len(positions) |->
                        data[IF positions[i] < 0 THEN Len(data) + positions[i] + 1
                             ELSE positions[i] + 1]]]

Distance(a, b) == IF a >= b THEN a - b ELSE b - a

\* the value of data nearest to day, the larger one when two are as near
nearest(data, day) ==
    CHOOSE x \in Range(data) :
        \A y \in Range(data) :
            \/ Distance(x, day) < Distance(y, day)
            \/ (Distance(x, day) = Distance(y, day) /\ x >= y)

\* data.sel(time=days, method="nearest")
sel_nearest(data, days) == [i \in 1..Len(days) |-> nearest(data, days[i])]

\* np.arange(data.size)[mask]: the positions (from 0) where mask holds, in order
RECURSIVE arange_where(_, _)
arange_where(size, mask) ==
    IF size = 0 THEN << >>
    ELSE IF mask[size] THEN Append(arange_where(size - 1, mask), size - 1)
         ELSE arange_where(size - 1, mask)

\* data.isin(selected_dates)
isin(data, selected_dates) == [i \in 1..Len(data) |-> data[i] \in Range(selected_dates)]

Values(items) == [i \in 1..Len(items) |-> items[i].v]

Returns(value) == [raised |-> "none", value |-> value]

Raises(error) == [raised |-> error, value |-> None]

\* a converter that returns the positions of a list of integers as they are given
preproduction_converter_positions_as_given(data, timestamps) ==
    IF timestamps = None THEN Returns(None)
    ELSE IF timestamps = All THEN Returns(Some([i \in 1..Len(data) |-> i - 1]))
    ELSE IF \A i \in 1..Len(timestamps.items) : timestamps.items[i].type = "int"
         THEN IF isel(data, Values(timestamps.items)).raised # "none"
              THEN Raises("IndexError")
              ELSE Returns(Some(Values(timestamps.items)))
    ELSE IF \A i \in 1..Len(timestamps.items) : timestamps.items[i].type = "str"
         THEN Returns(Some(arange_where(Len(data),
                               isin(data, sel_nearest(data, Values(timestamps.items))))))
    ELSE Raises("TypeError")

\* _preproduction_converter() for the time axis data and the configured timestamps
_preproduction_converter(data, timestamps) ==
    IF timestamps = None THEN Returns(None)
    ELSE IF timestamps = All THEN Returns(Some([i \in 1..Len(data) |-> i - 1]))
    ELSE IF \A i \in 1..Len(timestamps.items) : timestamps.items[i].type = "int"
         THEN LET selected_dates == isel(data, Values(timestamps.items))
              IN  IF selected_dates.raised # "none" THEN Raises(selected_dates.raised)
                  ELSE Returns(Some(arange_where(Len(data), isin(data, selected_dates.value))))
    ELSE IF \A i \in 1..Len(timestamps.items) : timestamps.items[i].type = "str"
         THEN LET selected_dates == sel_nearest(data, Values(timestamps.items))
              IN  Returns(Some(arange_where(Len(data), isin(data, selected_dates))))
    ELSE Raises("TypeError")

\* the model after generate_configuration, with a time axis of n values and the
\* timestamps of the configuration
InitProduction ==
    /\ hasState = TRUE
    /\ state = model_parameters
    /\ chunked = FALSE
    /\ client = FALSE
    /\ pc = 0
    /\ callNo = 0
    /\ lastOp = "generate_configuration"
    /\ outcome = "ok"
    /\ executed = << >>
    /\ written = << >>
    /\ scatters = 0
    /\ computed = FALSE
    /\ \E n \in 1..MaxAxis, timestamps \in Timestamps :
          args = [fn |-> "production", n |-> n, timestamps |-> timestamps]
    /\ result = NoArgs

\* production evaluates the argument export_preproduction=_preproduction_converter()
CallConverter ==
    /\ args.fn = "production"
    /\ result = NoArgs
    /\ result' = _preproduction_converter(TimeAxis(args.n), args.timestamps)
    /\ UNCHANGED << args, pipelineVars >>

\* then, unless the converter has raised, it calls compute_production and assigns
\* self.state
CallComputeProduction ==
    /\ args.fn = "production"
    /\ result # NoArgs
    /\ lastOp # "production"
    /\ \E bodyOk \in BOOLEAN : Production(result.raised = "none", bodyOk)

NextProduction == CallConverter \/ CallComputeProduction

SpecProduction == InitProduction /\ [][NextProduction]_vars

ConverterDone == args.fn = "production" /\ result # NoArgs

StrictlyIncreasing(seq) == \A i \in 1..(Len(seq) - 1) : seq[i] < seq[i + 1]

IsList(timestamps) == timestamps # None /\ timestamps # All

Types(timestamps) == {timestamps.items[i].type : i \in 1..Len(timestamps.items)}

\* timestamps is a list of positions of the axis
IsPositions(timestamps, n) ==
    /\ IsList(timestamps)
    /\ \A i \in 1..Len(timestamps.items) :
          timestamps.items[i].type = "int" /\ timestamps.items[i].v \in 0..(n - 1)

\* position j (from 0) holds a timestamp the configuration selects
Selected(j, timestamps, n) ==
    \/ timestamps = All
    \/ /\ IsList(timestamps)
       /\ \E i \in 1..Len(timestamps.items) :
             LET e == timestamps.items[i]
             IN  \/ e.type = "int" /\ (e.v = j \/ e.v + n = j)
                 \/ /\ e.type = "str"
                    /\ \A k \in 0..(n - 1) :
                          Distance(TimeAxis(n)[j + 1], e.v) <= Distance(TimeAxis(n)[k + 1], e.v)

\* C15: the converter returns None for timestamps None, the positions 0..n-1 for
\* "all", and for a list of positions the same positions in strictly increasing
\* order, each once; what it returns otherwise is strictly increasing, within
\* 0..n-1 and holds selected timestamps only; a list with both integers and strings
\* makes it raise TypeError, and production then ends in that error without calling
\* compute_production and with the state as it was.
C15_TimestampSelection ==
    /\ []( ConverterDone =>
             LET n == args.n
                 ts == args.timestamps
             IN  /\ ts = None => result = Returns(None)
                 /\ ts = All => result = Returns(Some([i \in 1..n |-> i - 1]))
                 /\ IsPositions(ts, n) =>
                       /\ result.raised = "none" /\ result.value # None
                       /\ StrictlyIncreasing(result.value.v)
                       /\ Range(result.value.v) = Range(Values(ts.items))
                 /\ (result.raised = "none" /\ result.value # None) =>
                       /\ StrictlyIncreasing(result.value.v)
                       /\ Range(result.value.v) \subseteq 0..(n - 1)
                       /\ \A j \in Range(result.value.v) : Selected(j, ts, n)
                 /\ (IsList(ts) /\ Types(ts) = {"int", "str"}) =>
                       result = Raises("TypeError") )
    /\ []( (ConverterDone /\ result.raised # "none" /\ lastOp = "production") =>
             (~computed /\ outcome = "error" /\ state = model_parameters /\ callNo = 0) )
    /\ [][ (ConverterDone /\ result.raised # "none") =>
             (state' = state /\ ~computed' /\ result' = result) ]_vars

\* the list [2, 0, 2] on an axis of 3 values has given the positions [0, 2], and
\* compute_production has been called with them
C15_Witness ==
    /\ ConverterDone
    /\ args.n = 3
    /\ args.timestamps = List(<< IntEntry(2), IntEntry(0), IntEntry(2) >>)
    /\ result = Returns(Some(<< 0, 2 >>))
    /\ lastOp = "production" /\ computed

\* the list [0, "4"] has made the converter raise TypeError and production has
\* ended without calling compute_production
C15_WitnessTypeError ==
    /\ ConverterDone
    /\ args.timestamps = List(<< IntEntry(0), StrEntry(4) >>)
    /\ result = Raises("TypeError")
    /\ lastOp = "production" /\ outcome = "error" /\ ~computed
    /\ state = model_parameters

-----------------------------------------------------------------------------
(* Properties of the orchestrator (specification Spec) *)

IsPrefix(s, t) == Len(s) <= Len(t) /\ \A i \in 1..Len(s) : s[i] = t[i]

\* the kernel pre_production is about to call
Calling(name) == pc \in 1..Len(KernelOrder) /\ KernelOrder[pc] = name

\* every pre-production field is in the state
PreProductionCompleted == hasState /\ \A f \in PreproductionFields : IsPresent(state, f)

\* the production is in the state
ProductionCompleted == hasState /\ IsPresent(state, "production")

\* C1: whenever pre_production calls mask_by_fgroup, global_mask is already in the
\* state; whenever it calls average_temperature, day_length and mask_by_fgroup are
\* already in the state (and so is everything a kernel reads from an earlier kernel).
C1_ReadAfterWrite ==
    /\ Calling("mask_by_fgroup") => IsPresent(state, "global_mask")
    /\ Calling("avg_temperature_by_fgroup") =>
          IsPresent(state, "day_length") /\ IsPresent(state, "mask_by_fgroup")
    /\ \A i \in 1..Len(KernelOrder) :
          Calling(KernelOrder[i]) =>
             \A f \in KernelReads(KernelOrder[i]) \cap PreproductionFields : IsPresent(state, f)

\* pre_production is about to call average_temperature in a first run, its two
\* inputs written by this very call
C1_Witness ==
    /\ Calling("avg_temperature_by_fgroup")
    /\ written = << "global_mask", "mask_by_fgroup", "day_length" >>
    /\ state["day_length"].call = callNo
    /\ ~IsPresent(state, "avg_temperature_by_fgroup")

\* C2 (as claimed): production calls compute_production only on a state where
\* pre_production has completed, post_production calls compute_biomass only on a state
\* where production has completed, and pre_production executes a kernel only once
\* generate_configuration has populated the state.
C2_PhasesStrictlySequential ==
    [][ /\ (lastOp' = "production" /\ computed') => PreProductionCompleted
        /\ (lastOp' = "post_production" /\ computed') => ProductionCompleted
        /\ (lastOp' = "pre_production" /\ executed' # << >>) => hasState ]_vars

\* C2 (amended): the methods check nothing but that the state exists: while the state
\* is None pre_production executes no kernel and production does not call
\* compute_production, both ending in an error that leaves the model as it was; the
\* order among the phases is the caller's.
C2_OnlyStateIsRequired ==
    [][ /\ (lastOp' = "pre_production" /\ ~hasState) =>
              executed' = << >> /\ outcome' = "error" /\ state' = state /\ ~hasState'
        /\ (lastOp' = "production" /\ ~hasState) =>
              ~computed' /\ outcome' = "error" /\ state' = state /\ ~hasState'
        /\ (lastOp' = "pre_production" /\ executed' # << >>) => hasState ]_vars

\* production has been called before generate_configuration and has failed without
\* calling compute_production
C2_Witness ==
    lastOp = "production" /\ ~hasState /\ outcome = "error" /\ ~computed

\* C6: when a kernel raises, pre_production ends at once with the error, the state
\* is what it was before the kernel was called (no value for its field, nothing for
\* the kernels after it), and no later kernel is called.
C6_KernelRaiseAborts ==
    /\ [][ (pc \in 1..Len(KernelOrder) /\ outcome' = "error") =>
              /\ state' = state
              /\ pc' = 0
              /\ written' = written
              /\ executed' = Append(executed, KernelOrder[pc]) ]_vars
    /\ [][ (pc \in 1..Len(KernelOrder) /\ pc' # 0) =>
              outcome' = "running" /\ Len(written') = Len(executed') ]_vars
    /\ []( (lastOp = "pre_production" /\ hasState /\ outcome = "error") =>
              /\ pc = 0
              /\ IsPrefix(executed, KernelOrder)
              /\ Len(executed) = Len(written) + 1
              /\ IsPrefix(written, executed) )

\* average_temperature has raised in a second run: the three kernels before it have
\* written their fields, the field itself still holds the value of the first run
C6_Witness ==
    /\ lastOp = "pre_production" /\ outcome = "error" /\ pc = 0
    /\ executed = << "global_mask", "mask_by_fgroup", "day_length", "avg_temperature_by_fgroup" >>
    /\ written = << "global_mask", "mask_by_fgroup", "day_length" >>
    /\ state["day_length"].call = callNo
    /\ IsPresent(state, "avg_temperature_by_fgroup")
    /\ state["avg_temperature_by_fgroup"].call < callNo
    /\ state["mortality_field"].call < callNo

\* C7: a step of pre_production changes the state only by the assignment to the key
\* of the kernel just called (the kernel itself changes nothing), and a call assigns
\* the keys in the order of the mapping, each at most once and, when the call
\* completes, exactly once.
C7_OnlyOrchestratorWrites ==
    /\ [][ lastOp' = "pre_production" =>
              IF pc \in 1..Len(KernelOrder)
              THEN \A f \in Fields \ {KernelOrder[pc]} : state'[f] = state[f]
              ELSE state' = state ]_vars
    /\ [][ (pc \in 1..Len(KernelOrder) /\ outcome' # "error") =>
              /\ written' = Append(written, KernelOrder[pc])
              /\ state'[KernelOrder[pc]].call = callNo ]_vars
    /\ []( /\ IsPrefix(written, KernelOrder)
           /\ (lastOp = "pre_production" /\ outcome = "ok") => written = KernelOrder )

\* a second pre_production has completed: every key written once more, the
\* configuration fields as generate_configuration left them
C7_Witness ==
    /\ lastOp = "pre_production" /\ outcome = "ok"
    /\ written = KernelOrder
    /\ callNo >= 2
    /\ \A f \in PreproductionFields : state[f].call = callNo
    /\ \A f \in ConfigurationFields : state[f] = model_parameters[f]

\* the order of the steps a run follows, as BaseModel documents it
PipelineOrder ==
    << "parse", "initialize", "generate_configuration", "pre_production", "production",
       "post_production", "save_output", "close" >>

Position(step) == CHOOSE i \in 1..Len(PipelineOrder) : PipelineOrder[i] = step

\* the scatters a call of pre_production has to make: one with a client, none without
ScattersDue == IF client THEN 1 ELSE 0

\* C12: in every call of pre_production the state is chunked before any kernel
\* executes; with a client the state is scattered exactly once, after the chunk and
\* before the first kernel, and without a client it is never scattered and the
\* kernels run all the same on the chunked state; the client goes away only in
\* close(), which the documented order of the steps puts after post_production.
C12_ChunkScatterClose ==
    /\ []( pc = ScatterLine => (chunked /\ scatters = 0 /\ executed = << >>) )
    /\ []( pc \in 1..Len(KernelOrder) => (chunked /\ scatters = ScattersDue) )
    /\ []( (lastOp = "pre_production" /\ executed # << >>) =>
              (chunked /\ scatters = ScattersDue) )
    /\ []( (lastOp = "pre_production" /\ outcome = "ok") =>
              (chunked /\ executed = KernelOrder /\ scatters = ScattersDue) )
    /\ [][ scatters' > scatters =>
              /\ pc = ScatterLine /\ pc' = 1
              /\ client /\ chunked
              /\ scatters = 0 /\ scatters' = 1
              /\ executed = << >> /\ executed' = << >> ]_vars
    /\ [][ (pc = ScatterLine /\ ~client) => (scatters' = 0 /\ pc' = 1) ]_vars
    /\ [][ executed' # executed /\ executed' # << >> =>
              (chunked /\ chunked' /\ scatters = ScattersDue /\ scatters' = scatters) ]_vars
    /\ [][ (client /\ ~client') => lastOp' = "close" ]_vars
    /\ [][ lastOp' = "close" => ~client' ]_vars
    /\ [](Position("close") > Position("post_production"))

\* with a client, a call of pre_production has completed: one scatter, every kernel
\* executed on the chunked state
C12_Witness ==
    /\ client
    /\ lastOp = "pre_production" /\ outcome = "ok"
    /\ chunked /\ scatters = 1
    /\ executed = KernelOrder

\* without a client, a call of pre_production has completed with no scatter
C12_WitnessNoClient ==
    /\ ~client
    /\ lastOp = "pre_production" /\ outcome = "ok"
    /\ chunked /\ scatters = 0
    /\ executed = KernelOrder

\* close() has closed a client that pre_production had scattered the state to
C12_WitnessClosed ==
    /\ lastOp = "close" /\ ~client /\ scatters = 1 /\ chunked

====
